---- MODULE Spec2Model ----
(***************************************************************************)
(* Model of the ISPLab02 syringe pump drivers:                             *)
(*   src/isplab02_modbus_controller.py  (ModbusRTU codec and               *)
(*                                       ISPLab02ModbusController)         *)
(*   src/syringe_pump_controller.py     (ISPLab02Controller, the           *)
(*                                       command-string variant)           *)
(* Bytes are integers 0..255, frames are sequences of bytes, text is a     *)
(* sequence of one-character strings.                                      *)
(***************************************************************************)
EXTENDS Integers, Sequences, FiniteSets, TLC

VARIABLES
    variant,        \* which controller class the session is an instance of
    slave_id,       \* self.slave_id (Modbus-RTU variant)
    serial_conn,    \* self.serial_conn: NoHandle (None) or a handle id
    is_connected,   \* self.is_connected
    opened,         \* number of channel handles serial.Serial() has opened
    open_handles,   \* handles opened by the session and not closed
    last,           \* the last call: operation, arguments, channel I/O, result
    codec_in,       \* input of the codec function under test
    codec_out       \* its result ("pending" before it has run)

vars == <<variant, slave_id, serial_conn, is_connected, opened, open_handles,
          last, codec_in, codec_out>>

(***************************************************************************)
(* Bounds of the model.                                                    *)
(***************************************************************************)
\* successful serial.Serial() opens per session
MaxOpens == 2
\* number of payload bytes of the frames given to parse_response
MaxPayload == 6

(***************************************************************************)
(* Integer helpers: Python's ^ on non-negative ints, and byte packing.     *)
(***************************************************************************)
RECURSIVE XorBits(_, _)
\* a ^ b, bit by bit
XorBits(a, b) ==
    IF a = 0 THEN b
    ELSE IF b = 0 THEN a
    ELSE (((a % 2) + (b % 2)) % 2) + 2 * XorBits(a \div 2, b \div 2)

\* a ^ b for 4-bit a and b, tabulated once
XorTable == [a \in 0..15 |-> [b \in 0..15 |-> XorBits(a, b)]]

RECURSIVE Xor(_, _)
\* a ^ b, four bits at a time
Xor(a, b) ==
    IF a = 0 THEN b
    ELSE IF b = 0 THEN a
    ELSE XorTable[a % 16][b % 16] + 16 * Xor(a \div 16, b \div 16)

\* struct.pack('>H', v) / struct.unpack('>H', b): big-endian 16 bit
PackBE16(v) == <<v \div 256, v % 256>>
UnpackBE16(b) == b[1] * 256 + b[2]
\* struct.pack('<H', v) / struct.unpack('<H', b): little-endian 16 bit
PackLE16(v) == <<v % 256, v \div 256>>
UnpackLE16(b) == b[1] + b[2] * 256

\* Python slice s[i:j] with 0-based, end-exclusive indices 0 <= i
Slice(s, i, j) ==
    LET hi == IF j > Len(s) THEN Len(s) ELSE j
    IN  IF hi <= i THEN <<>> ELSE SubSeq(s, i + 1, hi)

(***************************************************************************)
(* ModbusRTU.calculate_crc16                                               *)
(***************************************************************************)
CrcSeed == 65535
CrcPoly == 40961

RECURSIVE CrcShift_NoPoly(_, _)
\* faulty variant: the inner loop shifts and never folds the polynomial in
CrcShift_NoPoly(crc, n) ==
    IF n = 0 THEN crc ELSE CrcShift_NoPoly(crc \div 2, n - 1)

RECURSIVE CrcShift(_, _)
\* the inner loop: n more iterations of "for _ in range(8)"
CrcShift(crc, n) ==
    IF n = 0 THEN crc
    ELSE IF crc % 2 = 1
         THEN CrcShift(Xor(crc \div 2, CrcPoly), n - 1)
         ELSE CrcShift(crc \div 2, n - 1)

RECURSIVE CrcFrom(_, _, _)
\* the outer loop from byte index i (1-based) with accumulator crc
CrcFrom(data, i, crc) ==
    IF i > Len(data) THEN crc
    ELSE CrcFrom(data, i + 1, CrcShift(Xor(crc, data[i]), 8))

calculate_crc16(data) == CrcFrom(data, 1, CrcSeed)

(***************************************************************************)
(* ModbusRTU.build_request.  The result is [ok, err, frame]: struct.pack   *)
(* raises struct.error for a field outside its width (B: 0..255,           *)
(* H: 0..65535) or for value = None, and an unsupported function code      *)
(* raises ValueError; no frame is produced then.                           *)
(***************************************************************************)
\* value=None, the default of build_request's value parameter
NoValue == -1

FitsB(v) == v \in 0..255
FitsH(v) == v \in 0..65535

Raised(e) == [ok |-> FALSE, err |-> e, frame |-> <<>>]
\* faulty variant: the CRC is appended high byte first
Built_CrcBigEndian(data) ==
    [ok |-> TRUE, err |-> "none", frame |-> data \o PackBE16(calculate_crc16(data))]

Built(data) == [ok |-> TRUE, err |-> "none",
                frame |-> data \o PackLE16(calculate_crc16(data))]

build_request(slave, function_code, register_addr, value, count) ==
    IF function_code = 3 THEN
        IF FitsB(slave) /\ FitsB(function_code) /\ FitsH(register_addr) /\ FitsH(count)
        THEN Built(<<slave, function_code>> \o PackBE16(register_addr) \o PackBE16(count))
        ELSE Raised("struct.error")
    ELSE IF function_code = 6 THEN
        IF FitsB(slave) /\ FitsB(function_code) /\ FitsH(register_addr) /\ FitsH(value)
        THEN Built(<<slave, function_code>> \o PackBE16(register_addr) \o PackBE16(value))
        ELSE Raised("struct.error")
    ELSE IF function_code = 16 THEN
        IF FitsB(slave) /\ FitsB(function_code) /\ FitsH(register_addr) /\ FitsH(value)
        THEN Built(<<slave, function_code>> \o PackBE16(register_addr)
                   \o PackBE16(1) \o <<2>> \o PackBE16(value))
        ELSE Raised("struct.error")
    ELSE Raised("ValueError")

(***************************************************************************)
(* ModbusRTU.parse_response.  The result is [some, value]: some = FALSE    *)
(* is Python's None.                                                       *)
(***************************************************************************)
None == [some |-> FALSE, value |-> 0]
Some(v) == [some |-> TRUE, value |-> v]

\* faulty variant: a function 6 answer is decoded at the offset of a function 3 one
parse_response_SameOffset(response) ==
    IF Len(response) < 5 THEN None
    ELSE
        LET n == Len(response)
            received_crc == UnpackLE16(Slice(response, n - 2, n))
            calculated_crc == calculate_crc16(Slice(response, 0, n - 2))
        IN  IF received_crc # calculated_crc THEN None
            ELSE
                LET function_code == response[2]
                IN  IF function_code = 3 THEN
                        IF n >= 7 THEN Some(UnpackBE16(Slice(response, 3, 5)))
                        ELSE None
                    ELSE IF function_code = 6 THEN
                        IF n >= 8 THEN Some(UnpackBE16(Slice(response, 3, 5)))
                        ELSE None
                    ELSE None

parse_response(response) ==
    IF Len(response) < 5 THEN None
    ELSE
        LET n == Len(response)
            received_crc == UnpackLE16(Slice(response, n - 2, n))
            calculated_crc == calculate_crc16(Slice(response, 0, n - 2))
        IN  IF received_crc # calculated_crc THEN None
            ELSE
                LET function_code == response[2]
                IN  IF function_code = 3 THEN
                        IF n >= 7 THEN Some(UnpackBE16(Slice(response, 3, 5)))
                        ELSE None
                    ELSE IF function_code = 6 THEN
                        IF n >= 8 THEN Some(UnpackBE16(Slice(response, 4, 6)))
                        ELSE None
                    ELSE None

(***************************************************************************)
(* Physical values.  Python floats with at most four decimals are modelled *)
(* exactly as integers counting ten-thousandths: Units(100, 0) is 100.0    *)
(* and Units(0, 15) is 0.0015.  For decimal literals this far apart the    *)
(* float comparisons of the code agree with the exact ones.                *)
(***************************************************************************)
Units(whole, frac4) == whole * 10000 + frac4

\* int(x) of a non-negative float: truncation
IntOf(x) == x \div 10000

\* int(rate_ul_min * 100): a rate of u ten-thousandths times 100 is u / 100,
\* truncated.  The float product is exact for the rates of FlowRates.
ScaleFlowRate(rate) == rate \div 100

(***************************************************************************)
(* ISPLab02ModbusController.REGISTERS and REGISTERS.get(name)              *)
(***************************************************************************)
REGISTERS ==
    [n \in {"MODE", "FLOW_RATE", "VOLUME", "SYRINGE_DIA", "START_STOP",
            "STATUS", "DIRECTION", "LINEAR_SPEED"} |->
        CASE n = "MODE"         -> 1
          [] n = "FLOW_RATE"    -> 16
          [] n = "VOLUME"       -> 32
          [] n = "SYRINGE_DIA"  -> 48
          [] n = "START_STOP"   -> 64
          [] n = "STATUS"       -> 80
          [] n = "DIRECTION"    -> 96
          [] n = "LINEAR_SPEED" -> 112]

RegisterNames == DOMAIN REGISTERS

registers_get(name) == IF name \in DOMAIN REGISTERS THEN Some(REGISTERS[name]) ELSE None

\* faulty variant: only address 0 is refused, a failed lookup is not
Falsy_OnlyZero(r) == r.some /\ r.value = 0

\* Python's "not register_addr": None and 0 are falsy
Falsy(r) == ~r.some \/ r.value = 0

(***************************************************************************)
(* The session and the record of the last call.                            *)
(*   io      the channel calls the operation made, in order; each is       *)
(*           [kind, h, data, ok]: "write" or "read", the handle, the bytes *)
(*           written or returned, and ok = FALSE when the call raised      *)
(*   closes  the handles the operation closed, in order                    *)
(*   ret     "None", "False", "True", "value" (ret_value), "text"          *)
(*           (ret_text) or "void"                                          *)
(*   escaped the exception that left the operation, "none" if none did     *)
(*   was_connected  self.is_connected when the operation was called        *)
(***************************************************************************)
\* self.serial_conn = None
NoHandle == 0

Call(op, name, value, text, io, closes, ret, ret_value, ret_text) ==
    [op |-> op, name |-> name, value |-> value, text |-> text, io |-> io,
     closes |-> closes, ret |-> ret, ret_value |-> ret_value,
     ret_text |-> ret_text, escaped |-> "none", was_connected |-> is_connected]

NoCall == Call("new", "", 0, <<>>, <<>>, <<>>, "void", 0, <<>>)

IoWrite(h, data, ok) == [kind |-> "write", h |-> h, data |-> data, ok |-> ok]
IoRead(h, data, ok) == [kind |-> "read", h |-> h, data |-> data, ok |-> ok]

\* The slave addresses a session is constructed with: the default, and one
\* that does not fit the address byte.
SlaveIds == {1, 256}

IdleCodecIn ==
    [fn |-> "idle", slave |-> 0, function_code |-> 0, register_addr |-> 0,
     value |-> 0, count |-> 0, response |-> <<>>, pos |-> 0, mask |-> 0]

IdleCodecOut == [done |-> FALSE, built |-> Raised("none"), parsed |-> None]

\* __init__ of either class
Init ==
    /\ \/ variant = "modbus" /\ slave_id \in SlaveIds
       \/ variant = "command" /\ slave_id = 0
    /\ serial_conn = NoHandle
    /\ is_connected = FALSE
    /\ opened = 0
    /\ open_handles = {}
    /\ last = NoCall
    /\ codec_in = IdleCodecIn
    /\ codec_out = IdleCodecOut

(***************************************************************************)
(* connect / disconnect (ISPLab02ModbusController).                        *)
(* serial.Serial(...) either raises SerialException, and then nothing is   *)
(* assigned, or returns a new open handle.  Rebinding self.serial_conn     *)
(* drops the session's reference to the handle it held; the code does not  *)
(* close that handle, so whether it gets closed is left to the runtime's   *)
(* finalizer: either outcome is possible.                                  *)
(***************************************************************************)
\* faulty variant: is_connected is set before the port is opened, so a
\* failed open leaves it True
connect_FlagBeforeOpen ==
    /\ variant = "modbus"
    /\ \E open_ok \in BOOLEAN, finalized \in BOOLEAN :
        IF open_ok /\ opened < MaxOpens
        THEN /\ opened' = opened + 1
             /\ serial_conn' = opened + 1
             /\ open_handles' = (IF finalized THEN open_handles \ {serial_conn}
                                              ELSE open_handles) \cup {opened + 1}
             /\ is_connected' = TRUE
             /\ last' = Call("connect", "", 0, <<>>, <<>>, <<>>, "True", 0, <<>>)
        ELSE /\ UNCHANGED <<opened, serial_conn, open_handles>>
             /\ is_connected' = TRUE
             /\ last' = Call("connect", "", 0, <<>>, <<>>, <<>>, "False", 0, <<>>)
    /\ UNCHANGED <<variant, slave_id, codec_in, codec_out>>

connect ==
    /\ variant = "modbus"
    /\ \E open_ok \in BOOLEAN, finalized \in BOOLEAN :
        IF open_ok /\ opened < MaxOpens
        THEN /\ opened' = opened + 1
             /\ serial_conn' = opened + 1
             /\ open_handles' = (IF finalized THEN open_handles \ {serial_conn}
                                              ELSE open_handles) \cup {opened + 1}
             /\ is_connected' = TRUE
             /\ last' = Call("connect", "", 0, <<>>, <<>>, <<>>, "True", 0, <<>>)
        ELSE /\ UNCHANGED <<opened, serial_conn, open_handles, is_connected>>
             /\ last' = Call("connect", "", 0, <<>>, <<>>, <<>>, "False", 0, <<>>)
    /\ UNCHANGED <<variant, slave_id, codec_in, codec_out>>

\* faulty variant: close() is called whenever a handle is held, connected or not
disconnect_ClosesAgain ==
    /\ variant = "modbus"
    /\ IF serial_conn # NoHandle
       THEN /\ open_handles' = open_handles \ {serial_conn}
            /\ is_connected' = FALSE
            /\ last' = Call("disconnect", "", 0, <<>>, <<>>, <<serial_conn>>,
                            "void", 0, <<>>)
            /\ UNCHANGED <<opened, serial_conn>>
       ELSE /\ last' = Call("disconnect", "", 0, <<>>, <<>>, <<>>, "void", 0, <<>>)
            /\ UNCHANGED <<opened, serial_conn, open_handles, is_connected>>
    /\ UNCHANGED <<variant, slave_id, codec_in, codec_out>>

disconnect ==
    /\ variant = "modbus"
    /\ IF serial_conn # NoHandle /\ is_connected
       THEN /\ open_handles' = open_handles \ {serial_conn}
            /\ is_connected' = FALSE
            /\ last' = Call("disconnect", "", 0, <<>>, <<>>, <<serial_conn>>,
                            "void", 0, <<>>)
            /\ UNCHANGED <<opened, serial_conn>>
       ELSE /\ last' = Call("disconnect", "", 0, <<>>, <<>>, <<>>, "void", 0, <<>>)
            /\ UNCHANGED <<opened, serial_conn, open_handles, is_connected>>
    /\ UNCHANGED <<variant, slave_id, codec_in, codec_out>>

(***************************************************************************)
(* The channel.  serial_conn.write(request) either raises or accepts the   *)
(* bytes; serial_conn.read(256) either raises or returns what arrived      *)
(* within the timeout: nothing, or one of the frames of Responses.         *)
(***************************************************************************)
WithCrc(data) == data \o PackLE16(calculate_crc16(data))

\* a frame whose trailing CRC field does not match its payload
WithBadCrc(data) == data \o PackLE16(Xor(calculate_crc16(data), 1))

\* a function 3 answer carrying the value 1234
GoodRead == WithCrc(<<1, 3, 2>> \o PackBE16(1234))

\* What the device side can put on the wire besides the echo of the request:
\* a function 3 answer, a stub, a damaged function 6 echo, an answer from
\* another slave echoing another register and value, a Modbus exception
\* answer, and a function 3 frame too short to hold a value.
Responses ==
    {GoodRead, <<1, 3>>, WithBadCrc(<<1, 6, 0, 64, 0, 1>>),
     WithCrc(<<9, 6, 0, 32, 0, 7>>), WithCrc(<<1, 134, 2>>),
     WithCrc(<<1, 3, 1, 7>>)}

\* How the channel behaves during one exchange: write_ok = FALSE when
\* write() raises, read_ok = FALSE when read() raises, and otherwise read()
\* returns the request echoed back (echo) or data (<<>>: nothing arrived).
ChanWriteFails == [write_ok |-> FALSE, read_ok |-> TRUE, echo |-> FALSE, data |-> <<>>]
ChanReadFails == [write_ok |-> TRUE, read_ok |-> FALSE, echo |-> FALSE, data |-> <<>>]
ChanEcho == [write_ok |-> TRUE, read_ok |-> TRUE, echo |-> TRUE, data |-> <<>>]
ChanReturns(d) == [write_ok |-> TRUE, read_ok |-> TRUE, echo |-> FALSE, data |-> d]

ChannelBehaviours ==
    {ChanWriteFails, ChanReadFails, ChanEcho}
    \cup {ChanReturns(d) : d \in Responses \cup {<<>>}}

\* what read() returns under chan after request was written
Reply(chan, request) == IF chan.echo THEN request ELSE chan.data

(***************************************************************************)
(* read_register / write_register.  Each yields the call record; neither   *)
(* assigns a field of the session.  Everything from build_request on runs  *)
(* inside try ... except Exception, so an exception raised there is logged *)
(* and control falls through to the final return.                          *)
(***************************************************************************)
\* serial_conn.write(request); time.sleep(0.05); serial_conn.read(256):
\* the channel calls made, the read only if the write did not raise
\* faulty variant: when nothing arrives the request is sent and read a second time
Exchange_Retry(request, chan) ==
    IF ~chan.write_ok
    THEN <<IoWrite(serial_conn, request, FALSE)>>
    ELSE IF chan.read_ok /\ Reply(chan, request) = <<>>
    THEN <<IoWrite(serial_conn, request, TRUE), IoRead(serial_conn, <<>>, TRUE),
           IoWrite(serial_conn, request, TRUE), IoRead(serial_conn, <<>>, TRUE)>>
    ELSE <<IoWrite(serial_conn, request, TRUE),
           IoRead(serial_conn, IF chan.read_ok THEN Reply(chan, request) ELSE <<>>,
                  chan.read_ok)>>

Exchange(request, chan) ==
    IF ~chan.write_ok
    THEN <<IoWrite(serial_conn, request, FALSE)>>
    ELSE <<IoWrite(serial_conn, request, TRUE),
           IoRead(serial_conn, IF chan.read_ok THEN Reply(chan, request) ELSE <<>>,
                  chan.read_ok)>>

\* whether a channel call of the exchange raised
ExchangeRaised(io) == \E i \in 1..Len(io) : ~io[i].ok

\* the bytes read() returned
Received(io) == io[Len(io)].data

\* read_register from "if response:" on: the parsed value, or None
ReadResult(response) ==
    IF response # <<>> THEN parse_response(response) ELSE None

\* faulty variant: any bytes at all count as a successful write
WriteResult_AnyResponse(response) == response # <<>>

\* write_register from "if response:" on: True only for a parsed value
WriteResult(response) ==
    IF response # <<>>
    THEN LET result == parse_response(response) IN
         IF result.some THEN TRUE ELSE FALSE
    ELSE FALSE

\* faulty variant: only the channel's own error is caught, as in connect
Caught_OnlySerial(e) == e = "SerialException"

\* "except Exception as e:" of read_register and write_register: whether the
\* handler takes an error e raised inside the try block
Caught(e) == TRUE

\* the outcome of a call whose try block raised e: the handler logs and the
\* call returns its failure value, or e leaves the call
Handled(call, e) ==
    IF Caught(e) THEN call ELSE [call EXCEPT !.ret = "raise", !.escaped = e]

ReadRegister(op, register_name, chan) ==
    IF ~is_connected
    THEN Call(op, register_name, 0, <<>>, <<>>, <<>>, "None", 0, <<>>)
    ELSE
      LET register_addr == registers_get(register_name) IN
      IF Falsy(register_addr)
      THEN Call(op, register_name, 0, <<>>, <<>>, <<>>, "None", 0, <<>>)
      ELSE
        LET request == build_request(slave_id, 3, register_addr.value, NoValue, 1) IN
        IF ~request.ok
        THEN Handled(Call(op, register_name, 0, <<>>, <<>>, <<>>, "None", 0, <<>>),
                     request.err)
        ELSE
          LET io == Exchange(request.frame, chan) IN
          IF ExchangeRaised(io)
          THEN Handled(Call(op, register_name, 0, <<>>, io, <<>>, "None", 0, <<>>),
                       "SerialException")
          ELSE LET value == ReadResult(Received(io)) IN
               Call(op, register_name, 0, <<>>, io, <<>>,
                    IF value.some THEN "value" ELSE "None", value.value, <<>>)

WriteRegister(op, register_name, value, chan) ==
    IF ~is_connected
    THEN Call(op, register_name, value, <<>>, <<>>, <<>>, "False", 0, <<>>)
    ELSE
      LET register_addr == registers_get(register_name) IN
      IF Falsy(register_addr)
      THEN Call(op, register_name, value, <<>>, <<>>, <<>>, "False", 0, <<>>)
      ELSE
        LET request == build_request(slave_id, 6, register_addr.value, value, 1) IN
        IF ~request.ok
        THEN Handled(Call(op, register_name, value, <<>>, <<>>, <<>>, "False", 0, <<>>),
                     request.err)
        ELSE
          LET io == Exchange(request.frame, chan) IN
          IF ExchangeRaised(io)
          THEN Handled(Call(op, register_name, value, <<>>, io, <<>>, "False", 0, <<>>),
                       "SerialException")
          ELSE Call(op, register_name, value, <<>>, io, <<>>,
                    IF WriteResult(Received(io)) THEN "True" ELSE "False", 0, <<>>)

\* the register names callers pass: the eight known ones and an unknown one
NameInputs == RegisterNames \cup {"PRESSURE"}

\* the values callers pass to write_register: in and out of 16 bits
ValueInputs == {0, 1, 65535, 65536, -1}

\* the calls of read_register: <<name, channel behaviour>>
ReadCalls ==
    (NameInputs \X {ChanReturns(GoodRead), ChanReturns(<<>>)})
    \cup ({"STATUS"} \X ChannelBehaviours)

\* the calls of write_register: <<name, value, channel behaviour>>
WriteCalls ==
    (NameInputs \X {1} \X {ChanEcho, ChanReturns(<<>>)})
    \cup ({"START_STOP"} \X ValueInputs \X {ChanEcho})
    \cup ({"START_STOP"} \X {1} \X ChannelBehaviours)

read_register ==
    /\ variant = "modbus"
    /\ \E c \in ReadCalls :
        last' = ReadRegister("read_register", c[1], c[2])
    /\ UNCHANGED <<variant, slave_id, serial_conn, is_connected, opened,
                   open_handles, codec_in, codec_out>>

\* faulty variant: a channel error marks the session disconnected
write_register_DropsOnError ==
    /\ variant = "modbus"
    /\ \E c \in WriteCalls :
        LET call == WriteRegister("write_register", c[1], c[2], c[3]) IN
        /\ last' = call
        /\ is_connected' = (is_connected /\ ~ExchangeRaised(call.io))
    /\ UNCHANGED <<variant, slave_id, serial_conn, opened, open_handles,
                   codec_in, codec_out>>

write_register ==
    /\ variant = "modbus"
    /\ \E c \in WriteCalls :
        last' = WriteRegister("write_register", c[1], c[2], c[3])
    /\ UNCHANGED <<variant, slave_id, serial_conn, is_connected, opened,
                   open_handles, codec_in, codec_out>>

(***************************************************************************)
(* start / stop / get_status (ISPLab02ModbusController)                    *)
(***************************************************************************)
\* the channel behaviours start, stop and get_status are called under
StartStopChannels == {ChanEcho, ChanWriteFails, ChanReadFails, ChanReturns(<<>>)}

\* return self.write_register('START_STOP', 1)
start ==
    /\ variant = "modbus"
    /\ \E chan \in StartStopChannels :
        last' = WriteRegister("start", "START_STOP", 1, chan)
    /\ UNCHANGED <<variant, slave_id, serial_conn, is_connected, opened,
                   open_handles, codec_in, codec_out>>

\* return self.write_register('START_STOP', 0)
stop ==
    /\ variant = "modbus"
    /\ \E chan \in StartStopChannels :
        last' = WriteRegister("stop", "START_STOP", 0, chan)
    /\ UNCHANGED <<variant, slave_id, serial_conn, is_connected, opened,
                   open_handles, codec_in, codec_out>>

\* return self.read_register('STATUS')
get_status ==
    /\ variant = "modbus"
    /\ \E chan \in ChannelBehaviours :
        last' = ReadRegister("get_status", "STATUS", chan)
    /\ UNCHANGED <<variant, slave_id, serial_conn, is_connected, opened,
                   open_handles, codec_in, codec_out>>

(***************************************************************************)
(* save_to_memory / load_from_memory (ISPLab02ModbusController).  Neither  *)
(* checks is_connected or touches serial_conn: the slot is range checked   *)
(* and the answer returned.                                                *)
(***************************************************************************)
\* the slots callers pass: around both ends of 1..60, and one inside
Slots == {-1, 0, 1, 30, 60, 61}

\* faulty variant: the last slot is refused
SlotValid_Below60(slot) == 1 <= slot /\ slot < 60

\* 1 <= slot <= 60
SlotValid(slot) == 1 <= slot /\ slot <= 60

MemoryCall(op, slot) ==
    IF ~SlotValid(slot)
    THEN Call(op, "", slot, <<>>, <<>>, <<>>, "False", 0, <<>>)
    ELSE Call(op, "", slot, <<>>, <<>>, <<>>, "True", 0, <<>>)

save_to_memory ==
    /\ variant = "modbus"
    /\ \E slot \in Slots :
        last' = MemoryCall("save_to_memory", slot)
    /\ UNCHANGED <<variant, slave_id, serial_conn, is_connected, opened,
                   open_handles, codec_in, codec_out>>

load_from_memory ==
    /\ variant = "modbus"
    /\ \E slot \in Slots :
        last' = MemoryCall("load_from_memory", slot)
    /\ UNCHANGED <<variant, slave_id, serial_conn, is_connected, opened,
                   open_handles, codec_in, codec_out>>

(***************************************************************************)
(* set_flow_rate / set_linear_speed (ISPLab02ModbusController)             *)
(***************************************************************************)
\* 0.0015, 0.002, 100.0, 655.35, 655.36, 165871, 165871.0001, 200000
FlowRates ==
    {Units(0, 15), Units(0, 20), Units(100, 0), Units(655, 3500),
     Units(655, 3600), Units(165871, 0), Units(165871, 1), Units(200000, 0)}

\* the calls of set_flow_rate: <<rate, channel behaviour>>
FlowRateCalls ==
    (FlowRates \X {ChanEcho}) \cup ({Units(100, 0)} \X ChannelBehaviours)

\* 0.5, 1, 1.5, 65535, 65536, 132000, 132000.5
LinearSpeeds ==
    {Units(0, 5000), Units(1, 0), Units(1, 5000), Units(65535, 0),
     Units(65536, 0), Units(132000, 0), Units(132000, 5000)}

\* the calls of set_linear_speed: <<speed, channel behaviour>>
LinearSpeedCalls ==
    (LinearSpeeds \X {ChanEcho}) \cup ({Units(1, 5000)} \X ChannelBehaviours)

\* faulty variant: the lower limit is not checked
SetFlowRate_NoLowerLimit(rate_ul_min, chan) ==
    IF ~(rate_ul_min <= Units(165871, 0))
    THEN Call("set_flow_rate", "", rate_ul_min, <<>>, <<>>, <<>>, "False", 0, <<>>)
    ELSE LET register_value == ScaleFlowRate(rate_ul_min)
             success == WriteRegister("set_flow_rate", "FLOW_RATE", register_value, chan)
         IN  [success EXCEPT !.name = "", !.value = rate_ul_min]

SetFlowRate(rate_ul_min, chan) ==
    IF ~(Units(0, 20) <= rate_ul_min /\ rate_ul_min <= Units(165871, 0))
    THEN Call("set_flow_rate", "", rate_ul_min, <<>>, <<>>, <<>>, "False", 0, <<>>)
    ELSE LET register_value == ScaleFlowRate(rate_ul_min)
             success == WriteRegister("set_flow_rate", "FLOW_RATE", register_value, chan)
         IN  [success EXCEPT !.name = "", !.value = rate_ul_min]

set_flow_rate ==
    /\ variant = "modbus"
    /\ \E c \in FlowRateCalls :
        last' = SetFlowRate(c[1], c[2])
    /\ UNCHANGED <<variant, slave_id, serial_conn, is_connected, opened,
                   open_handles, codec_in, codec_out>>

SetLinearSpeed(speed_um_min, chan) ==
    IF ~(Units(1, 0) <= speed_um_min /\ speed_um_min <= Units(132000, 0))
    THEN Call("set_linear_speed", "", speed_um_min, <<>>, <<>>, <<>>, "False", 0, <<>>)
    ELSE LET register_value == IntOf(speed_um_min)
             success == WriteRegister("set_linear_speed", "LINEAR_SPEED",
                                      register_value, chan)
         IN  [success EXCEPT !.name = "", !.value = speed_um_min]

set_linear_speed ==
    /\ variant = "modbus"
    /\ \E c \in LinearSpeedCalls :
        last' = SetLinearSpeed(c[1], c[2])
    /\ UNCHANGED <<variant, slave_id, serial_conn, is_connected, opened,
                   open_handles, codec_in, codec_out>>

(***************************************************************************)
(* ISPLab02Controller, the command-string variant.  Text is a sequence of  *)
(* one-character strings; NonAscii stands for any character or byte        *)
(* outside ASCII.                                                          *)
(***************************************************************************)
Cmd_connect ==
    /\ variant = "command"
    /\ \E open_ok \in BOOLEAN, finalized \in BOOLEAN :
        IF open_ok /\ opened < MaxOpens
        THEN /\ opened' = opened + 1
             /\ serial_conn' = opened + 1
             /\ open_handles' = (IF finalized THEN open_handles \ {serial_conn}
                                              ELSE open_handles) \cup {opened + 1}
             /\ is_connected' = TRUE
             /\ last' = Call("connect", "", 0, <<>>, <<>>, <<>>, "True", 0, <<>>)
        ELSE /\ UNCHANGED <<opened, serial_conn, open_handles, is_connected>>
             /\ last' = Call("connect", "", 0, <<>>, <<>>, <<>>, "False", 0, <<>>)
    /\ UNCHANGED <<variant, slave_id, codec_in, codec_out>>

Cmd_disconnect ==
    /\ variant = "command"
    /\ IF serial_conn # NoHandle /\ is_connected
       THEN /\ open_handles' = open_handles \ {serial_conn}
            /\ is_connected' = FALSE
            /\ last' = Call("disconnect", "", 0, <<>>, <<>>, <<serial_conn>>,
                            "void", 0, <<>>)
            /\ UNCHANGED <<opened, serial_conn>>
       ELSE /\ last' = Call("disconnect", "", 0, <<>>, <<>>, <<>>, "void", 0, <<>>)
            /\ UNCHANGED <<opened, serial_conn, open_handles, is_connected>>
    /\ UNCHANGED <<variant, slave_id, codec_in, codec_out>>

NonAscii == "<non-ascii>"
IsAscii(text) == \A i \in 1..Len(text) : text[i] # NonAscii

CRLF == <<"\r", "\n">>

\* str.endswith
EndsWith(text, suffix) ==
    /\ Len(text) >= Len(suffix)
    /\ SubSeq(text, Len(text) - Len(suffix) + 1, Len(text)) = suffix

Whitespace == {" ", "\t", "\n", "\r"}

RECURSIVE LStrip(_)
LStrip(text) ==
    IF text # <<>> /\ Head(text) \in Whitespace THEN LStrip(Tail(text)) ELSE text

RECURSIVE RStrip(_)
RStrip(text) ==
    IF text # <<>> /\ text[Len(text)] \in Whitespace
    THEN RStrip(SubSeq(text, 1, Len(text) - 1))
    ELSE text

\* str.strip
Strip(text) == RStrip(LStrip(text))

DigitChars == <<"0", "1", "2", "3", "4", "5", "6", "7", "8", "9">>

RECURSIVE Decimal(_)
\* the decimal digits of n >= 0
Decimal(n) ==
    IF n < 10 THEN <<DigitChars[n + 1]>>
    ELSE Decimal(n \div 10) \o <<DigitChars[(n % 10) + 1]>>

\* f"{x:.3f}" for x >= 0: x rounded to thousandths.  The in-range rates of
\* CmdFlowRates are multiples of 0.001, where rounding changes nothing.
Fixed3(x) ==
    LET t == (x + 5) \div 10
        f == t % 1000
    IN  Decimal(t \div 1000) \o <<".">>
        \o <<DigitChars[(f \div 100) + 1], DigitChars[((f \div 10) % 10) + 1],
             DigitChars[(f % 10) + 1]>>

\* the lines readline() can return: nothing within the timeout, an answer,
\* an answer with blanks around it, an empty line, and undecodable bytes
LineResponses ==
    {<<>>, <<"O", "K", "\r", "\n">>, <<" ", "O", "K", " ", "\r", "\n">>,
     <<"\r", "\n">>, <<NonAscii, "\r", "\n">>}

LineBehaviours ==
    {ChanWriteFails, ChanReadFails} \cup {ChanReturns(d) : d \in LineResponses}

\* send_command: everything after the connection test runs inside
\* try ... except Exception, which returns None
SendCommand(op, command, chan) ==
    IF ~is_connected
    THEN Call(op, "", 0, command, <<>>, <<>>, "None", 0, <<>>)
    ELSE
      LET cmd == IF ~EndsWith(command, CRLF) THEN command \o CRLF ELSE command
          w == IoWrite(serial_conn, cmd, chan.write_ok)
          r == IoRead(serial_conn, IF chan.read_ok THEN chan.data ELSE <<>>,
                      chan.read_ok)
      IN
      IF ~IsAscii(cmd)
      THEN \* encode('ascii') raises before write is called
           Call(op, "", 0, command, <<>>, <<>>, "None", 0, <<>>)
      ELSE IF ~chan.write_ok
      THEN Call(op, "", 0, command, <<w>>, <<>>, "None", 0, <<>>)
      ELSE IF ~chan.read_ok
      THEN Call(op, "", 0, command, <<w, r>>, <<>>, "None", 0, <<>>)
      ELSE IF ~IsAscii(chan.data)
      THEN \* decode('ascii') raises
           Call(op, "", 0, command, <<w, r>>, <<>>, "None", 0, <<>>)
      ELSE Call(op, "", 0, command, <<w, r>>, <<>>, "text", 0, Strip(chan.data))

\* the commands callers send: bare, already terminated, and not ASCII
CommandInputs ==
    {<<"S", "T", "A", "R", "T">>, <<"S", "T", "O", "P", "\r", "\n">>,
     <<"V", "O", "L", ":", NonAscii>>}

send_command ==
    /\ variant = "command"
    /\ \E command \in CommandInputs, chan \in LineBehaviours :
        last' = SendCommand("send_command", command, chan)
    /\ UNCHANGED <<variant, slave_id, serial_conn, is_connected, opened,
                   open_handles, codec_in, codec_out>>

\* 0.0005, 0.001, 100.0, 127000, 127000.0001, 200000
CmdFlowRates ==
    {Units(0, 5), Units(0, 10), Units(100, 0), Units(127000, 0),
     Units(127000, 1), Units(200000, 0)}

\* Python's "if response": None and "" are falsy
Truthy(call) == call.ret = "text" /\ call.ret_text # <<>>

CmdSetFlowRate(rate_ul_min, chan) ==
    IF ~(Units(0, 10) <= rate_ul_min /\ rate_ul_min <= Units(127000, 0))
    THEN Call("set_flow_rate", "", rate_ul_min, <<>>, <<>>, <<>>, "False", 0, <<>>)
    ELSE LET command == <<"R", "A", "T", "E", ":">> \o Fixed3(rate_ul_min)
             response == SendCommand("set_flow_rate", command, chan)
         IN  [response EXCEPT !.value = rate_ul_min,
                              !.ret = IF Truthy(response) THEN "True" ELSE "False",
                              !.ret_text = <<>>]

Cmd_set_flow_rate ==
    /\ variant = "command"
    /\ \E rate_ul_min \in CmdFlowRates, chan \in LineBehaviours :
        last' = CmdSetFlowRate(rate_ul_min, chan)
    /\ UNCHANGED <<variant, slave_id, serial_conn, is_connected, opened,
                   open_handles, codec_in, codec_out>>

Next ==
    \/ connect
    \/ disconnect
    \/ read_register
    \/ write_register
    \/ set_flow_rate
    \/ set_linear_speed
    \/ start
    \/ stop
    \/ get_status
    \/ save_to_memory
    \/ load_from_memory
    \/ Cmd_connect
    \/ Cmd_disconnect
    \/ send_command
    \/ Cmd_set_flow_rate

Spec == Init /\ [][Next]_vars

(***************************************************************************)
(* The frame codec on its own: the initial state draws one input, and the  *)
(* action applies the function to it.                                      *)
(***************************************************************************)
\* the function codes and body bytes the frames under test are made of
FunctionCodes == {3, 6, 16}
BodyBytes == {18, 255}

\* payloads (a frame without its CRC) of up to MaxPayload bytes
Payloads ==
    {<<>>, <<1>>}
    \cup UNION {{<<1, fc>> \o b : fc \in FunctionCodes, b \in [1..n -> BodyBytes]} :
                n \in 0..(MaxPayload - 2)}

\* what a damaged byte differs by: every single bit, and some bit patterns
Masks == {1, 2, 4, 8, 16, 32, 64, 128} \cup {3, 90, 129, 255}

\* the payloads damaged in every possible way: a function 3 answer carrying
\* 1234 and the echo of a START_STOP write
FullyDamagedPayloads == {<<1, 3, 2, 4, 210>>, <<1, 6, 0, 64, 0, 1>>}

\* frame with the byte at pos (1-based) changed by mask; pos = 0: unchanged
Corrupt(frame, pos, mask) ==
    IF pos = 0 THEN frame ELSE [frame EXCEPT ![pos] = Xor(@, mask)]

BuildInputs ==
    [fn : {"build"}, slave : {0, 1, 247, 255}, function_code : {3, 6, 16, 0, 4},
     register_addr : {0, 64, 80, 4660, 65535}, value : {0, 1, 43981, 65535},
     count : {1, 258}, response : {<<>>}, pos : {0}, mask : {0}]

\* the well-formed frame of payload p, intact (pos = 0) or with one byte
\* damaged
FrameInputs(p) ==
    {[fn |-> "parse", slave |-> 0, function_code |-> 0, register_addr |-> 0,
      value |-> 0, count |-> 0, response |-> WithCrc(p), pos |-> i,
      mask |-> IF i = 0 THEN 0 ELSE m] :
        i \in 0..(Len(p) + 2), m \in Masks}

\* the well-formed frame of payload p with one byte changed to each of the
\* 255 other values
DamagedInputs(p) ==
    {[fn |-> "parse", slave |-> 0, function_code |-> 0, register_addr |-> 0,
      value |-> 0, count |-> 0, response |-> WithCrc(p), pos |-> i, mask |-> m] :
        i \in 1..(Len(p) + 2), m \in 1..255}

\* byte strings that are not frames
RawInputs ==
    {[fn |-> "parse", slave |-> 0, function_code |-> 0, register_addr |-> 0,
      value |-> 0, count |-> 0, response |-> r, pos |-> 0, mask |-> 0] :
        r \in {<<>>, <<1>>, <<0, 0, 0, 0, 0>>, <<1, 3, 2, 4, 210, 0, 0>>,
               <<1, 6, 0, 64, 0, 1, 222, 73>>}}

\* the bytes handed to parse_response
ParseInput(in) == Corrupt(in.response, in.pos, in.mask)

InitCodec ==
    /\ variant = "modbus"
    /\ slave_id = 1
    /\ serial_conn = NoHandle
    /\ is_connected = FALSE
    /\ opened = 0
    /\ open_handles = {}
    /\ last = NoCall
    /\ codec_in \in BuildInputs \cup RawInputs \cup UNION {FrameInputs(p) : p \in Payloads}
                   \cup UNION {DamagedInputs(p) : p \in FullyDamagedPayloads}
    /\ codec_out = IdleCodecOut

BuildRequest ==
    /\ codec_in.fn = "build"
    /\ ~codec_out.done
    /\ codec_out' = [done |-> TRUE,
                     built |-> build_request(codec_in.slave, codec_in.function_code,
                                             codec_in.register_addr, codec_in.value,
                                             codec_in.count),
                     parsed |-> None]
    /\ UNCHANGED <<codec_in, variant, slave_id, serial_conn, is_connected, opened,
                   open_handles, last>>

ParseResponse ==
    /\ codec_in.fn = "parse"
    /\ ~codec_out.done
    /\ codec_out' = [done |-> TRUE, built |-> Raised("none"),
                     parsed |-> parse_response(ParseInput(codec_in))]
    /\ UNCHANGED <<codec_in, variant, slave_id, serial_conn, is_connected, opened,
                   open_handles, last>>

NextCodec ==
    \/ BuildRequest
    \/ ParseResponse

SpecCodec == InitCodec /\ [][NextCodec]_vars

(***************************************************************************)
(* Properties of the sessions, checked under Spec.                         *)
(***************************************************************************)
\* the eight register names of the wire protocol
KnownRegisterNames ==
    {"MODE", "FLOW_RATE", "VOLUME", "SYRINGE_DIA", "START_STOP", "STATUS",
     "DIRECTION", "LINEAR_SPEED"}

RegisterOps == {"read_register", "write_register"}

\* the failure value of the operation of call
Failure(call) == IF call.op = "write_register" THEN "False" ELSE "None"

\* number of channel calls of kind k among io
CountIo(io, k) == Cardinality({i \in 1..Len(io) : io[i].kind = k})

\* C1: read_register, write_register and send_command touch the channel only
\* when the session is connected and, for the register operations, the name
\* is one of the eight known names; otherwise they return None / False and
\* have made no channel write and no channel read.  What they touch is the
\* handle the session holds, which is open.
C1_ChannelOnlyWhenConnectedAndKnown ==
    /\ (last.op \in RegisterOps
            /\ ~(is_connected /\ last.name \in KnownRegisterNames))
        => (last.io = <<>> /\ last.ret = Failure(last))
    /\ (last.op = "send_command" /\ ~is_connected)
        => (last.io = <<>> /\ last.ret = "None")
    /\ (last.op \in RegisterOps \cup {"send_command"} /\ last.io # <<>>)
        => /\ is_connected
           /\ serial_conn \in open_handles
           /\ \A i \in 1..Len(last.io) : last.io[i].h = serial_conn

\* a write_register with a known name on a session that was connected and
\* has been disconnected: refused without I/O
C1_Witness ==
    /\ last.op = "write_register"
    /\ last.name = "START_STOP"
    /\ opened > 0
    /\ ~is_connected
    /\ last.io = <<>>
    /\ last.ret = "False"

\* C2 (as claimed): after disconnect returns, no channel handle that the
\* session opened is still open.
C2_DisconnectReleasesEveryHandle ==
    last.op = "disconnect" => open_handles = {}

\* C3: disconnect on a never-connected session, or right after a disconnect,
\* raises nothing, closes nothing and leaves the session state as it was.
C3_DisconnectIdempotent ==
    [][(last'.op = "disconnect"
            /\ (serial_conn = NoHandle \/ last.op = "disconnect"))
        => /\ last'.closes = <<>>
           /\ last'.escaped = "none"
           /\ ~is_connected'
           /\ UNCHANGED <<serial_conn, is_connected, opened, open_handles>>]_vars

\* a disconnect that found the session's handle already closed and closed
\* nothing
C3_Witness ==
    /\ last.op = "disconnect"
    /\ last.closes = <<>>
    /\ serial_conn # NoHandle
    /\ serial_conn \notin open_handles
    /\ ~is_connected

\* C4: set_flow_rate with a rate outside [0.002, 165871] (Modbus-RTU) or
\* outside [0.001, 127000] (command-string), and set_linear_speed with a
\* speed outside [1, 132000], return False and make no channel write and no
\* channel read, connected or not.
C4_OutOfRangeNoIo ==
    /\ (variant = "modbus" /\ last.op = "set_flow_rate"
            /\ (last.value < Units(0, 20) \/ last.value > Units(165871, 0)))
        => (last.ret = "False" /\ last.io = <<>>)
    /\ (variant = "command" /\ last.op = "set_flow_rate"
            /\ (last.value < Units(0, 10) \/ last.value > Units(127000, 0)))
        => (last.ret = "False" /\ last.io = <<>>)
    /\ (last.op = "set_linear_speed"
            /\ (last.value < Units(1, 0) \/ last.value > Units(132000, 0)))
        => (last.ret = "False" /\ last.io = <<>>)

\* set_flow_rate(0.0015) on a connected Modbus-RTU session that could send
C4_Witness ==
    /\ variant = "modbus"
    /\ slave_id = 1
    /\ is_connected
    /\ last.op = "set_flow_rate"
    /\ last.value = Units(0, 15)
    /\ last.ret = "False"
    /\ last.io = <<>>

\* C5 (as claimed): on a connected Modbus-RTU session with a valid slave
\* address, set_flow_rate with a rate in [0.002, 165871] makes exactly one
\* write, of a function 6 frame to FLOW_RATE (0x0010) carrying
\* int(rate * 100), and set_linear_speed with a speed in [1, 132000] makes
\* exactly one write, of a frame to LINEAR_SPEED (0x0070) carrying int(speed).
C5_InRangeValuesAreSent ==
    /\ (variant = "modbus" /\ is_connected /\ slave_id \in 1..247
            /\ last.op = "set_flow_rate"
            /\ Units(0, 20) <= last.value /\ last.value <= Units(165871, 0))
        => /\ CountIo(last.io, "write") = 1
           /\ last.io[1].kind = "write"
           /\ SubSeq(last.io[1].data, 1, 4) = <<slave_id, 6, 0, 16>>
           /\ last.io[1].data[5] * 256 + last.io[1].data[6] = ScaleFlowRate(last.value)
    /\ (variant = "modbus" /\ is_connected /\ slave_id \in 1..247
            /\ last.op = "set_linear_speed"
            /\ Units(1, 0) <= last.value /\ last.value <= Units(132000, 0))
        => /\ CountIo(last.io, "write") = 1
           /\ last.io[1].kind = "write"
           /\ SubSeq(last.io[1].data, 1, 4) = <<slave_id, 6, 0, 112>>
           /\ last.io[1].data[5] * 256 + last.io[1].data[6] = IntOf(last.value)

\* C9: on a connected session with a known register, when read() returns no
\* bytes, or bytes parse_response rejects, read_register returns None and
\* write_register returns False.
C9_NoUsableResponseFails ==
    (last.op \in RegisterOps /\ Len(last.io) = 2 /\ last.io[2].ok
        /\ (last.io[2].data = <<>> \/ ~parse_response(last.io[2].data).some))
    => last.ret = Failure(last)

\* write_register that read back a frame with a bad CRC and returned False
C9_Witness ==
    /\ last.op = "write_register"
    /\ is_connected
    /\ Len(last.io) = 2
    /\ last.io[2].data = WithBadCrc(<<1, 6, 0, 64, 0, 1>>)
    /\ last.ret = "False"

\* exactly one channel write, then exactly one channel read unless the write
\* raised, and nothing after
OneExchange(io) ==
    /\ Len(io) >= 1
    /\ io[1].kind = "write"
    /\ io[1].ok => (Len(io) = 2 /\ io[2].kind = "read")
    /\ ~io[1].ok => Len(io) = 1

\* C10 (as claimed): every call of read_register or write_register on a
\* connected session with a known register makes exactly one channel write,
\* then (if the write did not fail) exactly one channel read, and no more.
\* Stated for sessions whose slave address is a Modbus address.
C10_ExactlyOneExchange ==
    (last.op \in RegisterOps /\ is_connected /\ last.name \in KnownRegisterNames
        /\ slave_id \in 1..247)
    => OneExchange(last.io)

\* whether the request of call can be packed: the slave address in a byte
\* and, for a write, the value in 16 bits
Encodable(call) ==
    /\ slave_id \in 0..255
    /\ call.op = "write_register" => call.value \in 0..65535

\* C10 (amended): such a call makes exactly one channel write, then (if the
\* write did not fail) exactly one channel read, and no more, when its
\* request can be packed; when it cannot, the call makes no channel write
\* and no channel read and returns None / False.  There is never a retry.
C10_OneExchangeWhenEncodable ==
    (last.op \in RegisterOps /\ is_connected /\ last.name \in KnownRegisterNames)
    => IF Encodable(last)
       THEN OneExchange(last.io)
       ELSE last.io = <<>> /\ last.ret = Failure(last)

\* read_register that got no response: one write, one read, None
C10_Witness ==
    /\ last.op = "read_register"
    /\ is_connected
    /\ Len(last.io) = 2
    /\ last.io[1].kind = "write" /\ last.io[2].kind = "read"
    /\ last.io[2].data = <<>>
    /\ last.ret = "None"

(***************************************************************************)
(* Properties of the frame codec, checked under SpecCodec.                 *)
(***************************************************************************)
Hi(v) == v \div 256
Lo(v) == v % 256

\* frame is body followed by the CRC16 of body, low byte first
EndsInCrcOf(frame, body) ==
    /\ Len(frame) = Len(body) + 2
    /\ SubSeq(frame, 1, Len(body)) = body
    /\ frame[Len(body) + 1] = Lo(calculate_crc16(body))
    /\ frame[Len(body) + 2] = Hi(calculate_crc16(body))

\* C6: for every slave address, 16-bit register address and 16-bit
\* count/value, build_request yields [slave][03][addr][count] for function
\* 3, [slave][06][addr][value] for function 6 and
\* [slave][10][addr][00][01][02][value] for function 16, fields high byte
\* first, each followed by [crc_lo][crc_hi] of the preceding bytes; any other
\* function code raises ValueError and yields no frame.  The CRC is the
\* Modbus CRC16: 01 03 00 00 00 01 is followed by 84 0A, and the START_STOP
\* write 01 06 00 40 00 01 by 49 DE.
C6_BuildRequestLayout ==
    (codec_out.done /\ codec_in.fn = "build") =>
        LET in == codec_in
            out == codec_out.built
            addr == <<Hi(in.register_addr), Lo(in.register_addr)>>
        IN  /\ in.function_code = 3 =>
                /\ out.ok
                /\ EndsInCrcOf(out.frame, <<in.slave, 3>> \o addr
                                          \o <<Hi(in.count), Lo(in.count)>>)
            /\ in.function_code = 6 =>
                /\ out.ok
                /\ EndsInCrcOf(out.frame, <<in.slave, 6>> \o addr
                                          \o <<Hi(in.value), Lo(in.value)>>)
            /\ in.function_code = 16 =>
                /\ out.ok
                /\ EndsInCrcOf(out.frame, <<in.slave, 16>> \o addr \o <<0, 1, 2>>
                                          \o <<Hi(in.value), Lo(in.value)>>)
            /\ in.function_code \notin {3, 6, 16} =>
                (~out.ok /\ out.err = "ValueError" /\ out.frame = <<>>)
            /\ (in.slave = 1 /\ in.function_code = 3 /\ in.register_addr = 0
                    /\ in.count = 1)
                => out.frame = <<1, 3, 0, 0, 0, 1, 132, 10>>
            /\ (in.slave = 1 /\ in.function_code = 6 /\ in.register_addr = 64
                    /\ in.value = 1)
                => out.frame = <<1, 6, 0, 64, 0, 1, 73, 222>>

\* the function 16 frame for slave 247, register 0x1234, value 0xABCD
C6_Witness ==
    /\ codec_out.done
    /\ codec_in.fn = "build"
    /\ codec_in.slave = 247 /\ codec_in.function_code = 16
    /\ codec_in.register_addr = 4660 /\ codec_in.value = 43981
    /\ codec_out.built.ok
    /\ SubSeq(codec_out.built.frame, 1, 9) = <<247, 16, 18, 52, 0, 1, 2, 171, 205>>

\* C7: parse_response returns no value for an input shorter than 5 bytes or
\* whose last two bytes (low byte first) differ from the CRC16 of the bytes
\* before them; otherwise the big-endian value at offset 3 when byte 1 is 3
\* and the length is at least 7, the value at offset 4 when byte 1 is 6 and
\* the length is at least 8, and no value in every other case.
C7_ParseResponse ==
    (codec_out.done /\ codec_in.fn = "parse") =>
        LET r == ParseInput(codec_in)
            n == Len(r)
            out == codec_out.parsed
        IN  IF n < 5 THEN ~out.some
            ELSE IF r[n - 1] + 256 * r[n] # calculate_crc16(SubSeq(r, 1, n - 2))
            THEN ~out.some
            ELSE IF r[2] = 3 /\ n >= 7
            THEN out.some /\ out.value = 256 * r[4] + r[5]
            ELSE IF r[2] = 6 /\ n >= 8
            THEN out.some /\ out.value = 256 * r[5] + r[6]
            ELSE ~out.some

\* an intact function 6 frame of 8 bytes decoded at offset 4
C7_Witness ==
    /\ codec_out.done
    /\ codec_in.fn = "parse"
    /\ codec_in.pos = 0
    /\ Len(codec_in.response) = 8
    /\ SubSeq(codec_in.response, 1, 6) = <<1, 6, 18, 255, 255, 18>>
    /\ codec_out.parsed = Some(65298)

\* C8: changing any single byte of a well-formed frame (a payload followed
\* by its own CRC16) to a different value, in particular flipping any single
\* bit of the payload, makes the CRC16 of the bytes before the last two
\* differ from the last two, and parse_response returns no value.
C8_CorruptionDetected ==
    (codec_out.done /\ codec_in.fn = "parse" /\ codec_in.pos # 0) =>
        LET r == ParseInput(codec_in)
            n == Len(r)
        IN  /\ r # codec_in.response
            /\ r[n - 1] + 256 * r[n] # calculate_crc16(SubSeq(r, 1, n - 2))
            /\ ~codec_out.parsed.some

\* the echo of a START_STOP write with one bit of its value field flipped
C8_Witness ==
    /\ codec_out.done
    /\ codec_in.fn = "parse"
    /\ codec_in.response = <<1, 6, 0, 64, 0, 1, 73, 222>>
    /\ codec_in.pos = 6
    /\ codec_in.mask = 1
    /\ parse_response(codec_in.response).some
    /\ ~codec_out.parsed.some

(***************************************************************************)
(* Further properties of the sessions, checked under Spec.                 *)
(***************************************************************************)
\* the operations that make a request / response transaction
TransactionOps ==
    {"read_register", "write_register", "set_flow_rate", "set_linear_speed",
     "start", "stop", "get_status"}

\* what an operation hands back: None or a value for the reads, True or
\* False for the writes
Outcomes(op) ==
    IF op \in {"read_register", "get_status"}
    THEN {"None", "value"}
    ELSE {"True", "False"}

\* C11: on a connected session, whatever the register name, the value to
\* write (inside or outside 0..65535) and the behaviour of the channel
\* (write error, read error, empty read, arbitrary bytes), read_register,
\* write_register, set_flow_rate, set_linear_speed, start, stop and
\* get_status return None / a value / True / False and let no error escape.
C11_NoErrorEscapes ==
    (last.op \in TransactionOps /\ is_connected)
    => (last.escaped = "none" /\ last.ret \in Outcomes(last.op))

\* write_register of a value that does not fit 16 bits on a connected
\* session: packing raised, nothing was sent, False was returned
C11_Witness ==
    /\ last.op = "write_register"
    /\ is_connected
    /\ last.name = "START_STOP"
    /\ last.value = 65536
    /\ slave_id = 1
    /\ last.io = <<>>
    /\ last.ret = "False"
    /\ last.escaped = "none"

MemoryOps == {"save_to_memory", "load_from_memory"}

\* C12: save_to_memory and load_from_memory return False for every slot
\* below 1 or above 60 and True for every slot in 1..60; in both cases they
\* make no channel write and no channel read, and the step that makes the
\* call leaves the connection state, the handle, the set of open handles
\* and the slave address as they were.
C12_MemorySlotsChecked ==
    [][last'.op \in MemoryOps
        => /\ last'.ret = (IF last'.value \in 1..60 THEN "True" ELSE "False")
           /\ last'.io = <<>>
           /\ last'.closes = <<>>
           /\ last'.escaped = "none"
           /\ UNCHANGED <<is_connected, serial_conn, open_handles, opened,
                          slave_id>>]_vars

\* save_to_memory(60) answered True on a connected session
C12_Witness ==
    /\ last.op = "save_to_memory"
    /\ last.value = 60
    /\ last.ret = "True"
    /\ is_connected
    /\ serial_conn \in open_handles

\* whether response is the answer to the write of value to the register
\* called name by this session: its slave address, function code 6, and
\* the register address and value of the request
AnswersWrite(response, name, value) ==
    /\ Len(response) >= 6
    /\ response[1] = slave_id
    /\ response[2] = 6
    /\ UnpackBE16(Slice(response, 2, 4)) = registers_get(name).value
    /\ UnpackBE16(Slice(response, 4, 6)) = value

\* C13: write_register returns True only when the frame read back answers
\* the request that was sent: it carries the session's slave address,
\* function code 6 and the register address and value of the request.  A
\* frame with a valid CRC from another slave, with another function code or
\* echoing another register or value is not reported as a successful write.
C13_WriteAnswersRequest ==
    (last.op = "write_register" /\ last.ret = "True")
    => (Len(last.io) = 2 /\ AnswersWrite(last.io[2].data, last.name, last.value))

\* the failure values: None of the reads, False of the writes
FailureValues == {"None", "False"}

\* C14: a transaction that fails (no response, bad CRC, undecodable frame,
\* channel error, unknown register, range rejection) changes neither the
\* connection state nor the channel handle nor the slave address: a
\* session that was connected stays connected, holding the same open
\* handle, so the next transaction passes the connection check.
C14_FailureLeavesSession ==
    [][(last'.op \in TransactionOps /\ last'.ret \in FailureValues)
        => /\ UNCHANGED <<is_connected, serial_conn, slave_id, open_handles>>
           /\ last'.closes = <<>>
           /\ (is_connected /\ serial_conn \in open_handles)
                => (is_connected' /\ serial_conn' \in open_handles')]_vars

\* a write_register whose channel write raised: False, and the session is
\* still connected and holds its open handle
C14_Witness ==
    /\ last.op = "write_register"
    /\ last.ret = "False"
    /\ Len(last.io) = 1
    /\ ~last.io[1].ok
    /\ last.was_connected
    /\ is_connected
    /\ serial_conn \in open_handles

\* C15: in every state reached from a fresh session by connect (succeeding
\* or failing), disconnect and the transaction calls, is_connected is True
\* only if serial_conn is a handle this session opened and has not closed.
\* A fresh session is disconnected with no handle, and a failed connect on
\* a disconnected session leaves it disconnected.
C15_ConnectedHoldsOpenHandle ==
    /\ is_connected
        => /\ serial_conn # NoHandle
           /\ serial_conn \in 1..opened
           /\ serial_conn \in open_handles
    /\ last.op = "new" => (~is_connected /\ serial_conn = NoHandle)
    /\ (last.op = "connect" /\ last.ret = "False" /\ ~last.was_connected)
        => ~is_connected

\* a connect that failed on a session that had been connected and then
\* disconnected: it still refers to the closed handle and is disconnected
C15_Witness ==
    /\ last.op = "connect"
    /\ last.ret = "False"
    /\ ~last.was_connected
    /\ serial_conn # NoHandle
    /\ serial_conn \notin open_handles
    /\ ~is_connected

============================================================================
